---- MODULE Spec2Model ----
(***************************************************************************)
(* Model of the btle crate: the byte codecs and the StaticBuf of           *)
(* src/src/bytes.rs, the opcode / command-frame / return codecs and the    *)
(* enum conversions of src/src/hci/mod.rs, the Adapter::send_command       *)
(* exchange of src/src/hci/adapter.rs and the USB transport of             *)
(* src/src/hci/usb/adapter.rs.                                             *)
(*                                                                         *)
(* The specifications share the variables:                                 *)
(*   SpecCodec    the pure codec functions applied to bounded inputs;      *)
(*   SpecBuf      a StaticBuf under with_size, resize and indexed writes;  *)
(*   Spec         send_command over any implementor of the Adapter trait   *)
(*                (write_command / read_event return what the transport    *)
(*                decides), with several callers competing for the         *)
(*                exclusive borrow of one Adapter;                         *)
(*   SpecUsbFair  send_command over the USB adapter, byte by byte, with    *)
(*                the fairness a running thread gives its own steps;       *)
(*   SpecUsbWriteFair  the same up to the return of write_command.         *)
(***************************************************************************)
EXTENDS Integers, Sequences, FiniteSets, TLC

VARIABLES
  call,    \* codec: the function applied, its argument and its result
  borrow,  \* adapter: the caller holding Pin<&mut Adapter> (0: nobody)
  ex,      \* adapter: each caller's exchange: its position in send_command,
           \*   the loop variable _try_i, and the history of the exchange
  ended,   \* adapter: the exchange that completed last, and what it returned
  wire,    \* usb: bytes the controller has queued on the event endpoint
  frames,  \* usb: the number of event frames the controller has sent
  usb,     \* usb: the frame of the USB call in progress
  io,      \* usb: history of the USB calls: what write_hci_command_bytes
           \*   handed to write_control, what read_event_packet took
  sbuf     \* bytes: a StaticBuf, and the last operation applied to it

codecVars == <<call>>
adapterVars == <<borrow, ex, ended>>
usbVars == <<wire, frames, usb, io>>
bufVars == <<sbuf>>
vars == <<call, borrow, ex, ended, wire, frames, usb, io, sbuf>>

(***************************************************************************)
(* Bounds of the model.                                                    *)
(***************************************************************************)
\* longest parameter payload of a modelled command, return or event
MaxParamLen == 2
\* how far a caller's buffer may be longer than the frame it should hold
MaxSlack == 1
\* number of callers that may try to use the one Adapter
NumCallers == 2
\* number of event frames the controller sends
MaxFrames == 2
\* capacity of the modelled StaticBuf: StaticBuf<[u8; MaxSize]>
MaxSize == 3
\* longest byte slice handed to from_bytes
MaxSliceLen == 2

(***************************************************************************)
(* Program constants.                                                      *)
(***************************************************************************)
OPCODE_LEN == 2
OCF_MAX == 1023
\* crate::hci::stream::HCI_EVENT_READ_TRIES: the number of read tries
HCI_EVENT_READ_TRIES == 10

\* the byte a caller's buffer holds before anything is packed into it
FillByte == 170
\* the parameter bytes the bounded inputs are drawn from: two status bytes
\* ErrorCode::try_from accepts, and two it rejects
ParamBytes == {0, 12, 42, 255}

(***************************************************************************)
(* u8 / u16 arithmetic.                                                    *)
(***************************************************************************)
RECURSIVE BitAnd(_, _)
BitAnd(a, b) ==
  IF a = 0 \/ b = 0 THEN 0
  ELSE (a % 2) * (b % 2) + 2 * BitAnd(a \div 2, b \div 2)

\* u16 << n, the bits shifted out of the word are lost
Shl16(v, n) == (v * (2 ^ n)) % 65536

\* u16::to_bytes_le -> u16::to_le_bytes
U16ToBytesLe(v) == <<v % 256, v \div 256>>

\* u16::from_bytes_le -> u16::from_le_bytes, None unless exactly 2 bytes
U16FromBytesLe(bytes) ==
  IF Len(bytes) = 2
  THEN [some |-> TRUE, val |-> bytes[1] + 256 * bytes[2]]
  ELSE [some |-> FALSE, val |-> 0]

SeqsUpTo(S, n) == UNION {[1..k -> S] : k \in 0..n}
Filled(n) == [i \in 1..n |-> FillByte]

(***************************************************************************)
(* bytes.rs: trait ToFromBytesEndian, implemented by the macro             *)
(* implement_to_from_bytes! for the primitive integers and by hand for     *)
(* bool.  A type is its name; target is the target_endian of the build.    *)
(***************************************************************************)
IntTypes == {"u8", "i8", "u16", "i16", "u32", "i32"}

\* core::mem::size_of::<Self>()
ByteSize(t) ==
  CASE t \in {"u8", "i8", "bool"} -> 1
    [] t \in {"u16", "i16"} -> 2
    [] t \in {"u32", "i32"} -> 4

Signed(t) == t \in {"i8", "i16", "i32"}

Targets == {"big", "little"}

Reverse(s) == [i \in 1..Len(s) |-> s[Len(s) + 1 - i]]

\* Self::to_le_bytes: the two's complement representation, low byte first
IntToLeBytes(t, v) == [i \in 1..ByteSize(t) |-> (v \div (256 ^ (i - 1))) % 256]

\* Self::to_be_bytes
IntToBeBytes(t, v) == Reverse(IntToLeBytes(t, v))

\* Self::to_ne_bytes
IntToNeBytes(t, v, target) ==
  IF target = "big" THEN IntToBeBytes(t, v) ELSE IntToLeBytes(t, v)

\* the value of the low k bytes of a little-endian representation
RECURSIVE LowBytesValue(_, _)
LowBytesValue(bytes, k) ==
  IF k = 0 THEN 0 ELSE bytes[k] * (256 ^ (k - 1)) + LowBytesValue(bytes, k - 1)

\* Self::from_le_bytes of an array [u8; size_of::<Self>()]
IntFromLeArray(t, bytes) ==
  LET n == ByteSize(t)
      top == IF Signed(t) /\ bytes[n] >= 128 THEN bytes[n] - 256 ELSE bytes[n]
  IN  top * (256 ^ (n - 1)) + LowBytesValue(bytes, n - 1)

None == [some |-> FALSE, val |-> 0]
Some(v) == [some |-> TRUE, val |-> v]

\* `bytes.try_into().ok()?`: a slice is an array only at the exact length
TryIntoArray(t, bytes) == Len(bytes) = ByteSize(t)

\* from_bytes_le of the macro
IntFromBytesLe(t, bytes) ==
  IF TryIntoArray(t, bytes) THEN Some(IntFromLeArray(t, bytes)) ELSE None

\* mutant: from_bytes_be reading the bytes low byte first
IntFromBytesBeUnswapped(t, bytes) == IntFromBytesLe(t, bytes)

\* from_bytes_be of the macro
IntFromBytesBe(t, bytes) ==
  IF TryIntoArray(t, bytes) THEN Some(IntFromLeArray(t, Reverse(bytes))) ELSE None

\* from_bytes_ne of the macro
IntFromBytesNe(t, bytes, target) ==
  IF target = "big" THEN IntFromBytesBe(t, bytes) ELSE IntFromBytesLe(t, bytes)

\* bool::to_bytes_ne: [u8::from(*self)]
BoolToBytesNe(b) == <<IF b THEN 1 ELSE 0>>

NoBool == [some |-> FALSE, val |-> FALSE]

\* mutant: every non-zero byte taken for true
BoolFromBytesNonZero(bytes) ==
  IF Len(bytes) = 1 THEN Some(bytes[1] # 0) ELSE NoBool

\* bool::from_bytes_ne
BoolFromBytesNe(bytes) ==
  IF Len(bytes) = 1
  THEN CASE bytes[1] = 0 -> Some(FALSE)
         [] bytes[1] = 1 -> Some(TRUE)
         [] OTHER -> NoBool
  ELSE NoBool

\* to_bytes_le / to_bytes_be / to_bytes_ne of a type
ToBytesLe(t, v) == IF t = "bool" THEN BoolToBytesNe(v) ELSE IntToLeBytes(t, v)
ToBytesBe(t, v) == IF t = "bool" THEN BoolToBytesNe(v) ELSE IntToBeBytes(t, v)
ToBytesNe(t, v, target) ==
  IF t = "bool" THEN BoolToBytesNe(v) ELSE IntToNeBytes(t, v, target)

\* from_bytes_le / from_bytes_be / from_bytes_ne of a type
FromBytesLe(t, bytes) ==
  IF t = "bool" THEN BoolFromBytesNe(bytes) ELSE IntFromBytesLe(t, bytes)
FromBytesBe(t, bytes) ==
  IF t = "bool" THEN BoolFromBytesNe(bytes) ELSE IntFromBytesBe(t, bytes)
FromBytesNe(t, bytes, target) ==
  IF t = "bool" THEN BoolFromBytesNe(bytes) ELSE IntFromBytesNe(t, bytes, target)

\* the Option<Endian> arguments of the _endian methods
Endians == {"Some(Big)", "Some(Little)", "None"}

\* ToFromBytesEndian::to_bytes_endian
ToBytesEndian(t, v, endian, target) ==
  CASE endian = "Some(Big)" -> ToBytesBe(t, v)
    [] endian = "Some(Little)" -> ToBytesLe(t, v)
    [] endian = "None" -> ToBytesNe(t, v, target)

\* ToFromBytesEndian::from_bytes_endian
FromBytesEndian(t, bytes, endian, target) ==
  CASE endian = "Some(Big)" -> FromBytesBe(t, bytes)
    [] endian = "Some(Little)" -> FromBytesLe(t, bytes)
    [] endian = "None" -> FromBytesNe(t, bytes, target)

\* the method pairs: le, be, ne, and endian with each Option<Endian>
Methods == {"le", "be", "ne"} \cup Endians

ToBytes(t, v, method, target) ==
  CASE method = "le" -> ToBytesLe(t, v)
    [] method = "be" -> ToBytesBe(t, v)
    [] method = "ne" -> ToBytesNe(t, v, target)
    [] OTHER -> ToBytesEndian(t, v, method, target)

FromBytes(t, bytes, method, target) ==
  CASE method = "le" -> FromBytesLe(t, bytes)
    [] method = "be" -> FromBytesBe(t, bytes)
    [] method = "ne" -> FromBytesNe(t, bytes, target)
    [] OTHER -> FromBytesEndian(t, bytes, method, target)

(***************************************************************************)
(* bytes.rs: StaticBuf<[u8; MaxSize]>.  sbuf is the buffer (pc "none"      *)
(* before one is built, "live" once with_size has returned, "panicked"     *)
(* when an assert! or a slice index has panicked), the last operation      *)
(* applied (op, its argument n), the backing array as it was before that   *)
(* operation, and for each index the byte a resize has hidden (-1: none).  *)
(***************************************************************************)
\* the bytes written into a StaticBuf
BufBytes == {42, 255}

\* ArrayBuf::default(), for ArrayBuf = [u8; MaxSize]
ArrayBufDefault == [i \in 1..MaxSize |-> 0]

\* StaticBuf::max_size
StaticBufMaxSize == Len(ArrayBufDefault)

NothingHidden == [i \in 1..MaxSize |-> -1]

NoStaticBuf ==
  [pc |-> "none", buf |-> ArrayBufDefault, len |-> 0, op |-> "", n |-> 0,
   before |-> ArrayBufDefault, hid |-> NothingHidden]

\* the thread has panicked in op(n): the buffer is not used again
Panicked(op, n) == [NoStaticBuf EXCEPT !.pc = "panicked", !.op = op, !.n = n]

\* mutant: the assert! off by one
FitsOneMore(size) == size <= StaticBufMaxSize + 1

\* `assert!(size <= Self::max_size(), ...)`
FitsStaticBuf(size) == size <= StaticBufMaxSize

\* impl Storage for StaticBuf: with_size
StaticBufWithSize(size) ==
  IF FitsStaticBuf(size)
  THEN [NoStaticBuf EXCEPT !.pc = "live", !.len = size, !.op = "with_size", !.n = size]
  ELSE Panicked("with_size", size)

\* impl Storage for StaticBuf: len
StaticBufLen(sb) == sb.len

\* impl AsRef<[u8]> for StaticBuf: &self.buf.as_ref()[..self.len]
StaticBufAsRef(sb) == SubSeq(sb.buf, 1, sb.len)

\* mutant: resize truncating, and zeroing what it uncovers, as Vec::resize
ResizeZeroing(buf, len, new_size) ==
  [i \in 1..Len(buf) |-> IF i > len \/ i > new_size THEN 0 ELSE buf[i]]

\* the backing array after resize: `self.len = new_size` is the only store
ResizeStores(buf, len, new_size) == buf

\* StaticBuf::resize.  History: a byte that was written and that the new
\* length hides is remembered in hid.
StaticBufResize(sb, new_size) ==
  IF FitsStaticBuf(new_size)
  THEN [sb EXCEPT !.len = new_size, !.op = "resize", !.n = new_size,
                  !.before = sb.buf,
                  !.buf = ResizeStores(sb.buf, sb.len, new_size),
                  !.hid = [i \in 1..MaxSize |->
                             IF i > new_size /\ i <= sb.len /\ sb.buf[i] # 0
                             THEN sb.buf[i] ELSE sb.hid[i]]]
  ELSE Panicked("resize", new_size)

\* impl IndexMut<usize> for StaticBuf: `buf[index] = value` goes through
\* as_mut(), the slice of the first len bytes, and panics beyond it
StaticBufIndexMut(sb, index, value) ==
  IF index < StaticBufLen(sb)
  THEN [sb EXCEPT !.buf[index + 1] = value, !.op = "index_mut", !.n = index,
                  !.before = sb.buf, !.hid[index + 1] = -1]
  ELSE Panicked("index_mut", index)

\* impl Index<usize> for StaticBuf: the byte read at index, index < len
StaticBufIndex(sb, index) == StaticBufAsRef(sb)[index + 1]

(***************************************************************************)
(* The enums of hci/mod.rs: each variant with its discriminant, and the    *)
(* arms of each TryFrom match, as written.                                 *)
(***************************************************************************)
ErrorCodeEnum ==
  {
    <<"Ok", 0>>, <<"UnknownHCICommand", 1>>, <<"NoConnection", 2>>, <<"HardwareFailure", 3>>,
    <<"PageTimeout", 4>>, <<"AuthenticationFailure", 5>>, <<"KeyMissing", 6>>,
    <<"MemoryFull", 7>>, <<"ConnectionTimeout", 8>>, <<"MaxNumberOfConnections", 9>>,
    <<"MaxNumberOfSCOConnectionsToADevice", 10>>, <<"ACLConnectionAlreadyExists", 11>>,
    <<"CommandDisallowed", 12>>, <<"HostRejectedDueToLimitedResources", 13>>,
    <<"HostRejectedDueToSecurityReasons", 14>>,
    <<"HostRejectedDueToARemoteDeviceOnlyAPersonalDevice", 15>>, <<"HostTimeout", 16>>,
    <<"UnsupportedFeatureOrParameterValue", 17>>, <<"InvalidHCICommandParameters", 18>>,
    <<"OtherEndTerminatedConnectionUserEndedConnection", 19>>,
    <<"OtherEndTerminatedConnectionLowResources", 20>>,
    <<"OtherEndTerminatedConnectionAboutToPowerOff", 21>>,
    <<"ConnectionTerminatedByLocalHost", 22>>, <<"RepeatedAttempts", 23>>,
    <<"PairingNotAllowed", 24>>, <<"UnknownLMPPDU", 25>>, <<"UnsupportedRemoteFeature", 26>>,
    <<"SCOOffsetRejected", 27>>, <<"SCOIntervalRejected", 28>>, <<"SCOAirModeRejected", 29>>,
    <<"InvalidLMPParameters", 30>>, <<"UnspecifiedError", 31>>,
    <<"UnsupportedLMPParameter", 32>>, <<"RoleChangeNotAllowed", 33>>,
    <<"LMPResponseTimeout", 34>>, <<"LMPErrorTransactionCollision", 35>>,
    <<"LMPPDUNotAllowed", 36>>, <<"EncryptionModeNotAcceptable", 37>>, <<"UnitKeyUsed", 38>>,
    <<"QoSNotSupported", 39>>, <<"InstantPassed", 40>>,
    <<"PairingWithUnitKeyNotSupported", 41>>, <<"TransactionCollision", 42>>,
    <<"QOSUnacceptableParameter", 44>>, <<"QOSRejected", 45>>,
    <<"ClassificationNotSupported", 46>>, <<"InsufficientSecurity", 47>>,
    <<"ParameterOutOfRange", 48>>, <<"RoleSwitchPending", 50>>, <<"SlotViolation", 52>>,
    <<"RoleSwitchFailed", 53>>, <<"EIRTooLarge", 54>>, <<"SimplePairingNotSupported", 55>>,
    <<"HostBusyPairing", 56>>
  }

ErrorCodeTryFromArms ==
  {
    <<0, "Ok">>, <<1, "UnknownHCICommand">>, <<2, "NoConnection">>, <<3, "HardwareFailure">>,
    <<4, "PageTimeout">>, <<5, "AuthenticationFailure">>, <<6, "KeyMissing">>,
    <<7, "MemoryFull">>, <<8, "ConnectionTimeout">>, <<9, "MaxNumberOfConnections">>,
    <<10, "MaxNumberOfSCOConnectionsToADevice">>, <<11, "ACLConnectionAlreadyExists">>,
    <<12, "CommandDisallowed">>, <<13, "HostRejectedDueToLimitedResources">>,
    <<14, "HostRejectedDueToSecurityReasons">>,
    <<15, "HostRejectedDueToARemoteDeviceOnlyAPersonalDevice">>, <<16, "HostTimeout">>,
    <<17, "UnsupportedFeatureOrParameterValue">>, <<18, "InvalidHCICommandParameters">>,
    <<19, "OtherEndTerminatedConnectionUserEndedConnection">>,
    <<20, "OtherEndTerminatedConnectionLowResources">>,
    <<21, "OtherEndTerminatedConnectionAboutToPowerOff">>,
    <<22, "ConnectionTerminatedByLocalHost">>, <<23, "RepeatedAttempts">>,
    <<24, "PairingNotAllowed">>, <<25, "UnknownLMPPDU">>, <<26, "UnsupportedRemoteFeature">>,
    <<27, "SCOOffsetRejected">>, <<28, "SCOIntervalRejected">>, <<29, "SCOAirModeRejected">>,
    <<30, "InvalidLMPParameters">>, <<31, "UnspecifiedError">>,
    <<32, "UnsupportedLMPParameter">>, <<33, "RoleChangeNotAllowed">>,
    <<34, "LMPResponseTimeout">>, <<35, "LMPErrorTransactionCollision">>,
    <<36, "LMPPDUNotAllowed">>, <<37, "EncryptionModeNotAcceptable">>, <<38, "UnitKeyUsed">>,
    <<39, "QoSNotSupported">>, <<40, "InstantPassed">>,
    <<41, "PairingWithUnitKeyNotSupported">>
  }

EventCodeEnum ==
  {
    <<"InquiryComplete", 1>>, <<"InquiryResult", 2>>, <<"ConnectionComplete", 3>>,
    <<"ConnectionRequest", 4>>, <<"DisconnectionComplete", 5>>, <<"AuthenticationComplete", 6>>,
    <<"RemoteNameRequestComplete", 7>>, <<"EncryptionChange", 8>>,
    <<"ChangeConnectionLinkKeyComplete", 9>>, <<"MasterLinkKeyComplete", 10>>,
    <<"ReadRemoteSupportedFeaturesComplete", 11>>,
    <<"ReadRemoteVersionInformationComplete", 12>>, <<"QoSSetupComplete", 13>>,
    <<"CommandComplete", 14>>, <<"CommandStatus", 15>>, <<"FlushOccurred", 17>>,
    <<"RoleChange", 18>>, <<"NumberOfCompletedPackets", 19>>, <<"ModeChange", 20>>,
    <<"ReturnLinkKeys", 21>>, <<"PINCodeRequest", 22>>, <<"LinkKeyRequest", 23>>,
    <<"LinkKeyNotification", 24>>, <<"LoopbackCommand", 25>>, <<"DataBufferOverflow", 26>>,
    <<"MaxSlotsChange", 27>>, <<"ReadClockOffsetComplete", 28>>,
    <<"ConnectionPacketTypeChanged", 29>>, <<"QoSViolation", 30>>,
    <<"PageScanRepetitionModeChange", 32>>, <<"FlowSpecificationComplete", 33>>,
    <<"InquiryResultWithRSSI", 34>>, <<"ReadRemoteExtendedFeaturesComplete", 35>>,
    <<"SynchronousConnectionComplete", 44>>, <<"SynchronousConnectionChanged", 45>>,
    <<"SniffSubrating", 46>>, <<"ExtendedInquiryResult", 47>>,
    <<"EncryptionKeyRefreshComplete", 48>>, <<"IOCapabilityRequest", 49>>,
    <<"IOCapabilityResponse", 50>>, <<"UserConfirmationRequest", 51>>,
    <<"UserPasskeyRequest", 52>>, <<"RemoteOOBDataRequest", 53>>,
    <<"SimplePairingComplete", 54>>, <<"LinkSupervisionTimeoutChanged", 56>>,
    <<"EnhancedFlushComplete", 57>>, <<"UserPasskeyNotification", 59>>,
    <<"KeypressNotification", 60>>, <<"RemoteHostSupportedFeaturesNotification", 61>>,
    <<"PhysicalLinkComplete", 64>>, <<"ChannelSelected", 65>>,
    <<"DisconnectionPhysicalLinkComplete", 66>>, <<"PhysicalLinkLostEarlyWarning", 67>>,
    <<"PhysicalLinkRecovery", 68>>, <<"LogicalLinkComplete", 69>>,
    <<"DisconnectionLogicalLinkComplete", 70>>, <<"FlowSpecModifyComplete", 71>>,
    <<"NumberOfCompletedDataBlocks", 72>>, <<"ShortRangeModeChangeComplete", 76>>,
    <<"AMPStatusChange", 77>>, <<"AMPStartTest", 73>>, <<"AMPTestEnd", 74>>,
    <<"AMPReceiverReport", 75>>, <<"LEMeta", 62>>
  }

EventCodeTryFromArms ==
  {
    <<1, "InquiryComplete">>, <<2, "InquiryResult">>, <<3, "ConnectionComplete">>,
    <<4, "ConnectionRequest">>, <<5, "DisconnectionComplete">>, <<6, "AuthenticationComplete">>,
    <<7, "RemoteNameRequestComplete">>, <<8, "EncryptionChange">>,
    <<9, "ChangeConnectionLinkKeyComplete">>, <<10, "MasterLinkKeyComplete">>,
    <<11, "ReadRemoteSupportedFeaturesComplete">>,
    <<12, "ReadRemoteVersionInformationComplete">>, <<13, "QoSSetupComplete">>,
    <<14, "CommandComplete">>, <<15, "CommandStatus">>, <<17, "FlushOccurred">>,
    <<18, "RoleChange">>, <<19, "NumberOfCompletedPackets">>, <<20, "ModeChange">>,
    <<21, "ReturnLinkKeys">>, <<22, "PINCodeRequest">>, <<23, "LinkKeyRequest">>,
    <<24, "LinkKeyNotification">>, <<25, "LoopbackCommand">>, <<26, "DataBufferOverflow">>,
    <<27, "MaxSlotsChange">>, <<28, "ReadClockOffsetComplete">>,
    <<29, "ConnectionPacketTypeChanged">>, <<30, "QoSViolation">>,
    <<32, "PageScanRepetitionModeChange">>, <<33, "FlowSpecificationComplete">>,
    <<34, "InquiryResultWithRSSI">>, <<35, "ReadRemoteExtendedFeaturesComplete">>,
    <<44, "SynchronousConnectionComplete">>, <<45, "SynchronousConnectionChanged">>,
    <<46, "SniffSubrating">>, <<47, "ExtendedInquiryResult">>,
    <<48, "EncryptionKeyRefreshComplete">>, <<51, "IOCapabilityRequest">>,
    <<50, "IOCapabilityResponse">>, <<49, "UserConfirmationRequest">>,
    <<52, "UserPasskeyRequest">>, <<53, "RemoteOOBDataRequest">>,
    <<54, "SimplePairingComplete">>, <<56, "LinkSupervisionTimeoutChanged">>,
    <<57, "EnhancedFlushComplete">>, <<59, "UserPasskeyNotification">>,
    <<60, "KeypressNotification">>, <<61, "RemoteHostSupportedFeaturesNotification">>,
    <<64, "PhysicalLinkComplete">>, <<65, "ChannelSelected">>,
    <<66, "DisconnectionPhysicalLinkComplete">>, <<67, "PhysicalLinkLostEarlyWarning">>,
    <<68, "PhysicalLinkRecovery">>, <<69, "LogicalLinkComplete">>,
    <<70, "DisconnectionLogicalLinkComplete">>, <<71, "FlowSpecModifyComplete">>,
    <<72, "NumberOfCompletedDataBlocks">>, <<76, "ShortRangeModeChangeComplete">>,
    <<77, "AMPStatusChange">>, <<73, "AMPStartTest">>, <<74, "AMPTestEnd">>,
    <<75, "AMPReceiverReport">>, <<62, "LEMeta">>
  }

OGFEnum ==
  {
    <<"NOP", 0>>, <<"LinkControl", 1>>, <<"LinkPolicy", 2>>, <<"HCIControlBaseband", 3>>,
    <<"InformationalParameters", 4>>, <<"StatusParameters", 5>>, <<"Testing", 6>>,
    <<"LEController", 8>>, <<"VendorSpecific", 63>>
  }

OGFTryFromArms ==
  {
    <<0, "NOP">>, <<1, "LinkControl">>, <<2, "LinkPolicy">>, <<3, "HCIControlBaseband">>,
    <<4, "InformationalParameters">>, <<5, "StatusParameters">>, <<6, "Testing">>,
    <<8, "LEController">>, <<63, "VendorSpecific">>
  }


Discriminant(enum, name) == (CHOOSE p \in enum : p[1] = name)[2]
Variants(enum) == {p[1] : p \in enum}

\* `match value { arm => Ok(variant), ..., _ => Err(HCIConversionError) }`
MatchArms(arms, value) ==
  IF \E p \in arms : p[1] = value
  THEN [ok |-> TRUE, val |-> (CHOOSE p \in arms : p[1] = value)[2]]
  ELSE [ok |-> FALSE, val |-> ""]

ErrorCodeToU8(code) == Discriminant(ErrorCodeEnum, code)
ErrorCodeTryFrom(value) == MatchArms(ErrorCodeTryFromArms, value)
EventCodeToU8(code) == Discriminant(EventCodeEnum, code)
EventCodeTryFrom(value) == MatchArms(EventCodeTryFromArms, value)
OGFToU8(ogf) == Discriminant(OGFEnum, ogf)
OGFTryFrom(value) == MatchArms(OGFTryFromArms, value)

(***************************************************************************)
(* Opcode(OGF, OCF).                                                       *)
(***************************************************************************)
\* OCF::new_masked
OCFNewMasked(ocf) == BitAnd(ocf, OCF_MAX)

\* every Opcode OCF::new / OCF::new_masked can build
Opcodes == [ogf : Variants(OGFEnum), ocf : 0..OCF_MAX]
NopOpcode == [ogf |-> "NOP", ocf |-> 0]

\* impl From<Opcode> for u16
OpcodeToU16(opcode) == BitAnd(opcode.ocf, Shl16(OGFToU8(opcode.ogf), 10))

\* mutant: the OGF taken from the high 7 bits of the word
OpcodeTryFromU16Shift9(value) ==
  LET ogf == OGFTryFrom(value \div 512)
  IN  IF ogf.ok
      THEN [ok |-> TRUE, opcode |-> [ogf |-> ogf.val, ocf |-> OCFNewMasked(value)]]
      ELSE [ok |-> FALSE, opcode |-> NopOpcode]

\* impl TryFrom<u16> for Opcode
OpcodeTryFromU16(value) ==
  LET ogf == OGFTryFrom(value \div 1024)
  IN  IF ogf.ok
      THEN [ok |-> TRUE, opcode |-> [ogf |-> ogf.val, ocf |-> OCFNewMasked(value)]]
      ELSE [ok |-> FALSE, opcode |-> NopOpcode]

\* Opcode::pack: the Result and the buffer as the call leaves it
OpcodePack(opcode, buf) ==
  IF Len(buf) # OPCODE_LEN
  THEN [ok |-> FALSE, err |-> "BadLength", buf |-> buf]
  ELSE [ok |-> TRUE, err |-> "", buf |-> U16ToBytesLe(OpcodeToU16(opcode))]

\* Opcode::unpack
OpcodeUnpack(buf) ==
  IF Len(buf) # OPCODE_LEN
  THEN [ok |-> FALSE, err |-> "BadLength", opcode |-> NopOpcode]
  ELSE LET t == OpcodeTryFromU16(U16FromBytesLe(buf).val)
       IN  IF t.ok
           THEN [ok |-> TRUE, err |-> "", opcode |-> t.opcode]
           ELSE [ok |-> FALSE, err |-> "BadBytes", opcode |-> NopOpcode]

(***************************************************************************)
(* trait Command.  A command is its opcode(), the parameter bytes its      *)
(* pack_into writes (byte_len() of them) and the error, if any, its        *)
(* pack_into fails with.                                                   *)
(***************************************************************************)
PackErrors == {"BadOpcode", "BadLength", "SmallBuffer", "BadBytes"}

CommandByteLen(cmd) == Len(cmd.params)

\* Command::full_len
CommandFullLen(cmd) == CommandByteLen(cmd) + OPCODE_LEN + 1

\* Command::pack_into of an implementor, as StatusReturn::pack_into does it
CommandPackInto(cmd, buf) ==
  IF cmd.packErr # "" THEN [ok |-> FALSE, err |-> cmd.packErr, buf |-> buf]
  ELSE IF Len(buf) # CommandByteLen(cmd)
  THEN [ok |-> FALSE, err |-> "BadLength", buf |-> buf]
  ELSE [ok |-> TRUE, err |-> "", buf |-> cmd.params]

\* Command::pack_full: the Result (n the usize of Ok) and the buffer after
CommandPackFull(cmd, buf) ==
  IF Len(buf) # CommandFullLen(cmd)
  THEN [ok |-> FALSE, err |-> "BadLength", n |-> 0, buf |-> buf]
  ELSE
    LET p == CommandPackInto(cmd, SubSeq(buf, 4, Len(buf)))
        o == OpcodePack(cmd.opcode, SubSeq(buf, 1, OPCODE_LEN))
    IN  IF ~p.ok
        THEN [ok |-> FALSE, err |-> p.err, n |-> 0, buf |-> SubSeq(buf, 1, 3) \o p.buf]
        ELSE IF ~o.ok
        THEN [ok |-> FALSE, err |-> o.err, n |-> 0, buf |-> o.buf \o <<buf[3]>> \o p.buf]
        ELSE IF CommandByteLen(cmd) > 255
        THEN [ok |-> FALSE, err |-> "panic", n |-> 0, buf |-> o.buf \o <<buf[3]>> \o p.buf]
        ELSE [ok |-> TRUE, err |-> "", n |-> CommandByteLen(cmd) + OPCODE_LEN,
              buf |-> o.buf \o <<CommandByteLen(cmd)>> \o p.buf]

(***************************************************************************)
(* trait Event.  An event is its CODE, the parameter bytes its pack_into   *)
(* writes (byte_len() of them) and the error, if any, its pack_into fails  *)
(* with.                                                                   *)
(***************************************************************************)
EVENT_CODE_LEN == 1

EventByteLen(ev) == Len(ev.params)

\* Event::pack_into of an implementor
EventPackInto(ev, buf) ==
  IF ev.packErr # "" THEN [ok |-> FALSE, err |-> ev.packErr, buf |-> buf]
  ELSE IF Len(buf) # EventByteLen(ev)
  THEN [ok |-> FALSE, err |-> "BadLength", buf |-> buf]
  ELSE [ok |-> TRUE, err |-> "", buf |-> ev.params]

\* Event::pack_full: the Result (n the usize of Ok) and the buffer after
EventPackFull(ev, buf) ==
  IF Len(buf) # EventByteLen(ev) + EVENT_CODE_LEN + 1
  THEN [ok |-> FALSE, err |-> "BadLength", n |-> 0, buf |-> buf]
  ELSE
    LET p == EventPackInto(ev, SubSeq(buf, 3, Len(buf)))
    IN  IF ~p.ok
        THEN [ok |-> FALSE, err |-> p.err, n |-> 0, buf |-> SubSeq(buf, 1, 2) \o p.buf]
        ELSE IF EventByteLen(ev) > 255
        THEN [ok |-> FALSE, err |-> "panic", n |-> 0,
              buf |-> <<EventCodeToU8(ev.code), buf[2]>> \o p.buf]
        ELSE [ok |-> TRUE, err |-> "", n |-> EventByteLen(ev) + EVENT_CODE_LEN + 1,
              buf |-> <<EventCodeToU8(ev.code), EventByteLen(ev)>> \o p.buf]

(***************************************************************************)
(* trait ReturnParameters, and its implementor StatusReturn.               *)
(***************************************************************************)
\* StatusReturn::EVENT_CODE
StatusReturnEventCode == "CommandComplete"

\* StatusReturn::byte_len
StatusReturnByteLen == 1

\* StatusReturn::unpack_from
StatusReturnUnpackFrom(buf) ==
  IF Len(buf) # StatusReturnByteLen
  THEN [ok |-> FALSE, err |-> "BadLength", status |-> ""]
  ELSE LET s == ErrorCodeTryFrom(buf[1])
       IN  IF s.ok
           THEN [ok |-> TRUE, err |-> "", status |-> s.val]
           ELSE [ok |-> FALSE, err |-> "BadBytes", status |-> ""]

\* StatusReturn::pack_into: the Result and the buffer as the call leaves it
StatusReturnPackInto(status, buf) ==
  IF Len(buf) # StatusReturnByteLen
  THEN [ok |-> FALSE, err |-> "BadLength", buf |-> buf]
  ELSE [ok |-> TRUE, err |-> "", buf |-> <<ErrorCodeToU8(status)>>]

\* mutant: the payload decoded before the event code is compared
UnpackFromPacketDecodeFirst(packet) ==
  LET d == StatusReturnUnpackFrom(packet.parameters)
  IN  IF ~d.ok THEN [res |-> d, decoded |-> TRUE]
      ELSE IF packet.event_opcode # StatusReturnEventCode
      THEN [res |-> [ok |-> FALSE, err |-> "BadOpcode", status |-> ""], decoded |-> TRUE]
      ELSE [res |-> d, decoded |-> TRUE]

\* ReturnParameters::unpack_from_packet, for Self = StatusReturn.  res is the
\* Result; decoded tells whether Self::unpack_from was called on the payload.
UnpackFromPacket(packet) ==
  IF packet.event_opcode # StatusReturnEventCode
  THEN [res |-> [ok |-> FALSE, err |-> "BadOpcode", status |-> ""], decoded |-> FALSE]
  ELSE [res |-> StatusReturnUnpackFrom(packet.parameters), decoded |-> TRUE]

(***************************************************************************)
(* hci::adapter::Error and the values exchanged with a transport.          *)
(***************************************************************************)
Callers == 1..NumCallers

Err(layer, kind, sub) == [layer |-> layer, kind |-> kind, sub |-> sub]
NoErr == Err("", "", "")
\* impl From<IOError> for Error
IOErr(e) == Err("IOError", e, "")
\* impl From<hci::StreamError> for Error
StreamErr(kind, sub) == Err("StreamError", kind, sub)
\* impl From<hci::ErrorCode> for Error
ControllerErr(code) == Err("ErrorCode", code, "")
\* impl From<hci::usb::Error> for Error: Error::IOError(e.0)
FromUsbError(e) == IOErr(e)

NoEvent == [event_opcode |-> "", parameters |-> <<>>]
\* what write_command or read_event returned: Ok(()) / Ok(event) / Err(err)
NoOutcome == [tag |-> "none", err |-> NoErr, event |-> NoEvent]
OkUnit == [tag |-> "Ok", err |-> NoErr, event |-> NoEvent]
OkEvent(e) == [tag |-> "Ok", err |-> NoErr, event |-> e]
Failed(e) == [tag |-> "Err", err |-> e, event |-> NoEvent]

\* what send_command returned: Ok(ret) / Err(err)
NoResult == [tag |-> "none", ret |-> "", err |-> NoErr]
OkReturn(status) == [tag |-> "Ok", ret |-> status, err |-> NoErr]
ErrResult(e) == [tag |-> "Err", ret |-> "", err |-> e]

\* errors an implementor of write_command / read_event may return: the three
\* layers of the taxonomy, and BadParameter
TransportErrors ==
  { IOErr("TimedOut"), StreamErr("BadEventCode", ""),
    ControllerErr("HardwareFailure"), Err("BadParameter", "", "") }

\* events an implementor of read_event may return
TransportEvents ==
  [event_opcode : {"CommandComplete", "CommandStatus"},
   parameters : {<<>>, <<0>>, <<12>>, <<42>>}]

\* commands handed to send_command
SentCommands ==
  [opcode : {[ogf |-> "HCIControlBaseband", ocf |-> 3]},
   params : {<<>>, <<12>>}, packErr : {"", "BadBytes"}]

\* Command::pack_command_packet: the frame, or the HCIPackError of pack_full
PackCommandPacket(cmd) == CommandPackFull(cmd, Filled(CommandFullLen(cmd)))

\* Command::unpack_return, for Return = StatusReturn: None for an event that
\* is not the awaited one, the decoded Return or the decode error otherwise
UnpackReturn(event) ==
  LET u == UnpackFromPacket(event).res
  IN  IF u.ok THEN [ok |-> TRUE, some |-> TRUE, ret |-> u.status, err |-> ""]
      ELSE IF u.err = "BadOpcode"
      THEN [ok |-> TRUE, some |-> FALSE, ret |-> "", err |-> ""]
      ELSE [ok |-> FALSE, some |-> FALSE, ret |-> "", err |-> u.err]

\* a caller's exchange: pc is its position in send_command ("idle" when it
\* runs none), try_i the loop variable; the rest is history: the calls the
\* exchange made of write_command and read_event, what the last of each
\* returned, and the events read for which unpack_return gave None
Idle ==
  [pc |-> "idle", try_i |-> 0, writes |-> 0, reads |-> 0,
   lastWrite |-> NoOutcome, lastRead |-> NoOutcome, nonmatch |-> 0]

\* no exchange has completed yet
NoExchange == [caller |-> 0, result |-> NoResult, x |-> Idle]

\* the frame of the USB adapter's call in progress: op is "write" in
\* write_hci_command_bytes, "header" and "params" in the first and second
\* read_event_bytes of read_event_packet; at is "test" at the loop's test and
\* "xfer" in the USB transfer; index and size are the loop's, buf the bytes
\* being written or the buffer being filled, header the header read, owner
\* the caller whose exchange made the call
UsbFrame(op, size, buf, header, owner) ==
  [op |-> op, at |-> "test", index |-> 0, size |-> size, buf |-> buf,
   header |-> header, owner |-> owner]

UsbIdle == [UsbFrame("idle", 0, <<>>, <<>>, 0) EXCEPT !.at = ""]

\* what a USB transfer returned: Ok(amount) or Err(usb::Error(err))
NoXfer == [tag |-> "none", amount |-> 0, err |-> ""]
XferOk(amount) == [tag |-> "Ok", amount |-> amount, err |-> ""]
XferErr(e) == [tag |-> "Err", amount |-> 0, err |-> e]

\* history of the USB adapter's calls.  Of write_hci_command_bytes: the bytes
\* it was given, those write_control has reported written, each taken from
\* the slice the call was handed, and what the last write_control returned.
\* Of read_event_packet: the number of bytes it has taken from the event
\* endpoint and the header it has read.  result is what the call returned.
NoIo ==
  [op |-> "none", bytes |-> <<>>, sent |-> <<>>, last |-> NoXfer,
   taken |-> 0, header |-> <<>>, result |-> NoOutcome]
IoWrite(bytes) == [NoIo EXCEPT !.op = "write_hci_command_bytes", !.bytes = bytes]
IoRead == [NoIo EXCEPT !.op = "read_event_packet"]

(***************************************************************************)
(* SpecCodec: Init draws a function and its argument from bounded sets,    *)
(* and one action per function applies it.                                 *)
(***************************************************************************)
NoCall == [fn |-> "none", arg |-> <<>>, done |-> TRUE, out |-> <<>>]
Pending(fn, arg) == [fn |-> fn, arg |-> arg, done |-> FALSE, out |-> <<>>]
Returned(fn, arg, out) == [fn |-> fn, arg |-> arg, done |-> TRUE, out |-> out]

\* opcodes of the commands whose frames are packed: NOP, Inquiry (0x0401),
\* Reset (0x0C03), an LE command and the last vendor opcode
CommandOpcodes ==
  { NopOpcode,
    [ogf |-> "LinkControl", ocf |-> 1],
    [ogf |-> "HCIControlBaseband", ocf |-> 3],
    [ogf |-> "LEController", ocf |-> 258],
    [ogf |-> "VendorSpecific", ocf |-> OCF_MAX] }

Commands ==
  [opcode : CommandOpcodes, params : SeqsUpTo(ParamBytes, MaxParamLen),
   packErr : {"", "BadBytes"}]

\* bytes of the buffers Opcode::unpack is given: 0x1C, 0x40 and 0xFC carry
\* high bits that are no OGF
OpcodeBytes == {0, 1, 4, 28, 64, 252, 255}

EventPackets ==
  [event_opcode : Variants(EventCodeEnum),
   parameters : SeqsUpTo(ParamBytes, MaxParamLen)]

OpcodePackInputs ==
  {Pending("Opcode::pack", [opcode |-> o, buf |-> Filled(n)]) :
     o \in Opcodes, n \in 0..(OPCODE_LEN + MaxSlack)}

OpcodeUnpackInputs ==
  {Pending("Opcode::unpack", [buf |-> b, fromPack |-> FALSE, opcode |-> NopOpcode]) :
     b \in SeqsUpTo(OpcodeBytes, OPCODE_LEN + MaxSlack)}

CommandPackFullInputs ==
  {Pending("Command::pack_full", [cmd |-> c, buf |-> Filled(n)]) :
     c \in Commands, n \in 0..(MaxParamLen + OPCODE_LEN + 1 + MaxSlack)}

\* the events whose frames are packed
Events ==
  [code : {"CommandComplete", "CommandStatus", "IOCapabilityRequest"},
   params : SeqsUpTo(ParamBytes, MaxParamLen), packErr : {"", "BadBytes"}]

EventPackFullInputs ==
  {Pending("Event::pack_full", [ev |-> e, buf |-> Filled(n)]) :
     e \in Events, n \in 0..(MaxParamLen + EVENT_CODE_LEN + 1 + MaxSlack)}

UnpackFromPacketInputs ==
  {Pending("ReturnParameters::unpack_from_packet", p) : p \in EventPackets}

\* values of each integer type the conversions are applied to: every value
\* of the one-byte types, and of the wider types the values at the ends of
\* the range, around each byte boundary, and with all bytes different (u32
\* below 2^31)
IntValues(t) ==
  CASE t = "u8" -> 0..255
    [] t = "i8" -> (-128)..127
    [] t = "u16" -> {0, 1, 255, 256, 258, 4660, 32767, 32768, 65279, 65535}
    [] t = "i16" -> {-32767 - 1, -32767, -4660, -256, -255, -1, 0, 1, 255, 256, 4660, 32767}
    [] t = "u32" -> {0, 1, 255, 65536, 16909060, 2147483647}
    [] t = "i32" -> {-2147483647 - 1, -16909060, -65536, -1, 0, 1, 16909060, 2147483647}

\* bytes of the slices from_bytes is given
SliceBytes == {0, 1, 2, 255}

\* the value a to_bytes call was given
ArgValue(arg) == IF arg.type = "bool" THEN arg.b ELSE arg.v

ToBytesInputs ==
  UNION {{Pending("to_bytes", [type |-> t, v |-> v, method |-> m, target |-> g]) :
            v \in IntValues(t), m \in Methods, g \in Targets} : t \in IntTypes}
  \cup
  {Pending("to_bytes", [type |-> "bool", b |-> b, method |-> m, target |-> g]) :
     b \in BOOLEAN, m \in Methods, g \in Targets}

FromBytesInputs ==
  {Pending("from_bytes", [type |-> t, bytes |-> s, method |-> m, target |-> g,
                          fromTo |-> FALSE, of |-> <<>>]) :
     t \in {"bool", "u8", "u16"}, s \in SeqsUpTo(SliceBytes, MaxSliceLen),
     m \in Methods, g \in Targets}

EventCodeToU8Inputs ==
  {Pending("u8::from(EventCode)", [code |-> c, ofValue |-> -1]) :
     c \in Variants(EventCodeEnum)}

EventCodeTryFromInputs ==
  {Pending("EventCode::try_from", [value |-> b, ofCode |-> ""]) : b \in 0..255}

ErrorCodeToU8Inputs ==
  {Pending("u8::from(ErrorCode)", [code |-> c]) : c \in Variants(ErrorCodeEnum)}

StatusReturnPackIntoInputs ==
  {Pending("StatusReturn::pack_into", [status |-> c, buf |-> Filled(n)]) :
     c \in Variants(ErrorCodeEnum), n \in 0..(StatusReturnByteLen + MaxSlack)}

InitCodec ==
  /\ \/ call \in OpcodePackInputs
     \/ call \in OpcodeUnpackInputs
     \/ call \in CommandPackFullInputs
     \/ call \in EventPackFullInputs
     \/ call \in UnpackFromPacketInputs
     \/ call \in ToBytesInputs
     \/ call \in FromBytesInputs
     \/ call \in EventCodeToU8Inputs
     \/ call \in EventCodeTryFromInputs
     \/ call \in ErrorCodeToU8Inputs
     \/ call \in StatusReturnPackIntoInputs
  /\ borrow = 0
  /\ ex = [c \in Callers |-> Idle]
  /\ ended = NoExchange
  /\ wire = <<>>
  /\ frames = 0
  /\ usb = UsbIdle
  /\ io = NoIo
  /\ sbuf = NoStaticBuf

OpcodePackCall ==
  /\ call.fn = "Opcode::pack" /\ ~call.done
  /\ call' = Returned(call.fn, call.arg, OpcodePack(call.arg.opcode, call.arg.buf))
  /\ UNCHANGED <<adapterVars, usbVars, bufVars>>

OpcodeUnpackCall ==
  /\ call.fn = "Opcode::unpack" /\ ~call.done
  /\ call' = Returned(call.fn, call.arg, OpcodeUnpack(call.arg.buf))
  /\ UNCHANGED <<adapterVars, usbVars, bufVars>>

\* Opcode::unpack given the two bytes an Opcode::pack has just written
OpcodeUnpackPacked ==
  /\ call.fn = "Opcode::pack" /\ call.done /\ call.out.ok
  /\ call' = Returned("Opcode::unpack",
                      [buf |-> call.out.buf, fromPack |-> TRUE, opcode |-> call.arg.opcode],
                      OpcodeUnpack(call.out.buf))
  /\ UNCHANGED <<adapterVars, usbVars, bufVars>>

CommandPackFullCall ==
  /\ call.fn = "Command::pack_full" /\ ~call.done
  /\ call' = Returned(call.fn, call.arg, CommandPackFull(call.arg.cmd, call.arg.buf))
  /\ UNCHANGED <<adapterVars, usbVars, bufVars>>

EventPackFullCall ==
  /\ call.fn = "Event::pack_full" /\ ~call.done
  /\ call' = Returned(call.fn, call.arg, EventPackFull(call.arg.ev, call.arg.buf))
  /\ UNCHANGED <<adapterVars, usbVars, bufVars>>

UnpackFromPacketCall ==
  /\ call.fn = "ReturnParameters::unpack_from_packet" /\ ~call.done
  /\ call' = Returned(call.fn, call.arg, UnpackFromPacket(call.arg))
  /\ UNCHANGED <<adapterVars, usbVars, bufVars>>

\* to_bytes_le / _be / _ne / _endian of a value
ToBytesCall ==
  /\ call.fn = "to_bytes" /\ ~call.done
  /\ call' = Returned(call.fn, call.arg,
                      ToBytes(call.arg.type, ArgValue(call.arg), call.arg.method,
                              call.arg.target))
  /\ UNCHANGED <<adapterVars, usbVars, bufVars>>

\* from_bytes_* of a byte slice
FromBytesCall ==
  /\ call.fn = "from_bytes" /\ ~call.done
  /\ call' = Returned(call.fn, call.arg,
                      FromBytes(call.arg.type, call.arg.bytes, call.arg.method,
                                call.arg.target))
  /\ UNCHANGED <<adapterVars, usbVars, bufVars>>

\* from_bytes_* given the bytes the to_bytes_* of the same pair has returned
FromBytesOfToBytes ==
  /\ call.fn = "to_bytes" /\ call.done
  /\ call' = Returned("from_bytes",
                      [type |-> call.arg.type, bytes |-> call.out,
                       method |-> call.arg.method, target |-> call.arg.target,
                       fromTo |-> TRUE, of |-> call.arg],
                      FromBytes(call.arg.type, call.out, call.arg.method,
                                call.arg.target))
  /\ UNCHANGED <<adapterVars, usbVars, bufVars>>

\* u8::from(code) of an EventCode
EventCodeToU8Call ==
  /\ call.fn = "u8::from(EventCode)" /\ ~call.done
  /\ call' = Returned(call.fn, call.arg, EventCodeToU8(call.arg.code))
  /\ UNCHANGED <<adapterVars, usbVars, bufVars>>

\* EventCode::try_from of a byte
EventCodeTryFromCall ==
  /\ call.fn = "EventCode::try_from" /\ ~call.done
  /\ call' = Returned(call.fn, call.arg, EventCodeTryFrom(call.arg.value))
  /\ UNCHANGED <<adapterVars, usbVars, bufVars>>

\* EventCode::try_from of the byte u8::from has returned for a variant
EventCodeTryFromOfU8 ==
  /\ call.fn = "u8::from(EventCode)" /\ call.done /\ call.arg.ofValue = -1
  /\ call' = Returned("EventCode::try_from",
                      [value |-> call.out, ofCode |-> call.arg.code],
                      EventCodeTryFrom(call.out))
  /\ UNCHANGED <<adapterVars, usbVars, bufVars>>

\* u8::from of the EventCode try_from has returned for a byte
EventCodeToU8OfTryFrom ==
  /\ call.fn = "EventCode::try_from" /\ call.done /\ call.arg.ofCode = ""
  /\ call.out.ok
  /\ call' = Returned("u8::from(EventCode)",
                      [code |-> call.out.val, ofValue |-> call.arg.value],
                      EventCodeToU8(call.out.val))
  /\ UNCHANGED <<adapterVars, usbVars, bufVars>>

\* u8::from(code) of an ErrorCode
ErrorCodeToU8Call ==
  /\ call.fn = "u8::from(ErrorCode)" /\ ~call.done
  /\ call' = Returned(call.fn, call.arg, ErrorCodeToU8(call.arg.code))
  /\ UNCHANGED <<adapterVars, usbVars, bufVars>>

\* ErrorCode::try_from of the byte u8::from has returned for a variant
ErrorCodeTryFromOfU8 ==
  /\ call.fn = "u8::from(ErrorCode)" /\ call.done
  /\ call' = Returned("ErrorCode::try_from",
                      [value |-> call.out, ofCode |-> call.arg.code],
                      ErrorCodeTryFrom(call.out))
  /\ UNCHANGED <<adapterVars, usbVars, bufVars>>

\* StatusReturn::pack_into
StatusReturnPackIntoCall ==
  /\ call.fn = "StatusReturn::pack_into" /\ ~call.done
  /\ call' = Returned(call.fn, call.arg,
                      StatusReturnPackInto(call.arg.status, call.arg.buf))
  /\ UNCHANGED <<adapterVars, usbVars, bufVars>>

\* StatusReturn::unpack_from given the byte a pack_into has just written
StatusReturnUnpackPacked ==
  /\ call.fn = "StatusReturn::pack_into" /\ call.done /\ call.out.ok
  /\ call' = Returned("StatusReturn::unpack_from",
                      [buf |-> call.out.buf, ofStatus |-> call.arg.status],
                      StatusReturnUnpackFrom(call.out.buf))
  /\ UNCHANGED <<adapterVars, usbVars, bufVars>>

NextCodec ==
  \/ OpcodePackCall
  \/ OpcodeUnpackCall
  \/ OpcodeUnpackPacked
  \/ CommandPackFullCall
  \/ EventPackFullCall
  \/ UnpackFromPacketCall
  \/ ToBytesCall
  \/ FromBytesCall
  \/ FromBytesOfToBytes
  \/ EventCodeToU8Call
  \/ EventCodeTryFromCall
  \/ EventCodeTryFromOfU8
  \/ EventCodeToU8OfTryFrom
  \/ ErrorCodeToU8Call
  \/ ErrorCodeTryFromOfU8
  \/ StatusReturnPackIntoCall
  \/ StatusReturnUnpackPacked

SpecCodec == InitCodec /\ [][NextCodec]_vars

(***************************************************************************)
(* Properties of the codecs, checked under SpecCodec.                      *)
(***************************************************************************)
Applied(fn) == call.fn = fn /\ call.done

\* the 16-bit opcode word of the wire layout: bits[15:10] = OGF, bits[9:0] = OCF
OpcodeWord(opcode) == OGFToU8(opcode.ogf) * 1024 + opcode.ocf

\* C7: Opcode::unpack applied to the 2 bytes Opcode::pack produced for a
\* valid Opcode returns that Opcode.
C7_OpcodeRoundTrip ==
  (Applied("Opcode::unpack") /\ call.arg.fromPack)
  => call.out = [ok |-> TRUE, err |-> "", opcode |-> call.arg.opcode]

\* C8: Opcode::pack writes, little-endian, the word whose bits[15:10] are the
\* OGF value and whose bits[9:0] are the OCF value.
C8_OpcodePackLayout ==
  (Applied("Opcode::pack") /\ Len(call.arg.buf) = OPCODE_LEN)
  => /\ call.out.ok
     /\ Len(call.out.buf) = OPCODE_LEN
     /\ LET word == call.out.buf[1] + 256 * call.out.buf[2]
        IN  /\ word \div 1024 = OGFToU8(call.arg.opcode.ogf)
            /\ word % 1024 = call.arg.opcode.ocf

\* C9: Command::pack_full fails with BadLength unless the buffer holds
\* byte_len() + 3 bytes; into such a buffer, pack_into succeeding, it writes
\* the opcode's low and high byte, then byte_len(), then the payload.
C9_CommandFrame ==
  Applied("Command::pack_full")
  => LET cmd == call.arg.cmd
         n == CommandByteLen(cmd)
     IN  /\ Len(call.arg.buf) # n + 3 =>
              (~call.out.ok /\ call.out.err = "BadLength")
         /\ (Len(call.arg.buf) = n + 3 /\ cmd.packErr = "") =>
              /\ call.out.ok
              /\ call.out.buf =
                   <<OpcodeWord(cmd.opcode) % 256, OpcodeWord(cmd.opcode) \div 256, n>>
                     \o cmd.params

\* C10: ReturnParameters::unpack_from_packet returns BadOpcode, without
\* decoding the payload, whenever the packet's event code is not EVENT_CODE,
\* whatever the payload; when the codes are equal it returns what unpack_from
\* returns on the payload: BadLength unless the payload is one byte, BadBytes
\* when ErrorCode::try_from rejects the byte, the status otherwise.
C10_UnpackFromPacket ==
  Applied("ReturnParameters::unpack_from_packet")
  => LET packet == call.arg
         p == packet.parameters
     IN  /\ packet.event_opcode # StatusReturnEventCode =>
              /\ call.out.res = [ok |-> FALSE, err |-> "BadOpcode", status |-> ""]
              /\ ~call.out.decoded
         /\ packet.event_opcode = StatusReturnEventCode =>
              /\ call.out.res = StatusReturnUnpackFrom(p)
              /\ Len(p) # 1 => call.out.res.err = "BadLength"
              /\ (Len(p) = 1 /\ ErrorCodeTryFrom(p[1]).ok) =>
                   (call.out.res.ok /\ ErrorCodeToU8(call.out.res.status) = p[1])
              /\ (Len(p) = 1 /\ ~ErrorCodeTryFrom(p[1]).ok) =>
                   call.out.res.err = "BadBytes"

\* a CommandStatus packet whose payload is a valid status byte is refused
C10_Witness ==
  /\ Applied("ReturnParameters::unpack_from_packet")
  /\ call.arg = [event_opcode |-> "CommandStatus", parameters |-> <<12>>]
  /\ call.out.res.err = "BadOpcode"
  /\ StatusReturnUnpackFrom(call.arg.parameters).ok

\* C13: for every primitive integer type and bool, every value v and every
\* method pair (le, be, ne, and endian with Some(Big), Some(Little), None):
\* from_bytes applied to what to_bytes returned for v is Some(v).
C13_EndianRoundTrip ==
  (Applied("from_bytes") /\ call.arg.fromTo)
  => (call.out.some /\ call.out.val = ArgValue(call.arg.of))

\* a negative i16 with two different bytes has made the trip big-endian
C13_Witness ==
  /\ Applied("from_bytes") /\ call.arg.fromTo
  /\ call.arg.type = "i16" /\ call.arg.method = "Some(Big)"
  /\ call.arg.bytes = <<237, 204>>
  /\ call.out = Some(-4660)

\* C14: bool::from_bytes_{ne,le,be} returns Some(false) for exactly [0],
\* Some(true) for exactly [1], and None for every other slice: another
\* single byte, the empty slice, a longer slice; the same for each variant.
C14_BoolFromBytes ==
  (Applied("from_bytes") /\ call.arg.type = "bool")
  => /\ call.out = Some(FALSE) <=> call.arg.bytes = <<0>>
     /\ call.out = Some(TRUE) <=> call.arg.bytes = <<1>>
     /\ call.arg.bytes \notin {<<0>>, <<1>>} => call.out = NoBool

\* from_bytes_be of [2] is None
C14_Witness ==
  /\ Applied("from_bytes") /\ call.arg.type = "bool" /\ ~call.arg.fromTo
  /\ call.arg.method = "be" /\ call.arg.bytes = <<2>>
  /\ call.out = NoBool

\* the values of the known OGFs
KnownOGFs == {OGFToU8(g) : g \in Variants(OGFEnum)}

\* C15: Opcode::pack and Opcode::unpack return BadLength for every buffer
\* whose length is not 2, pack leaving the buffer as it was; Opcode::unpack
\* of a 2-byte buffer returns BadBytes exactly when the high 6 bits of the
\* little-endian word are not the value of a known OGF, and Ok otherwise.
C15_OpcodeErrors ==
  /\ (Applied("Opcode::pack") /\ Len(call.arg.buf) # 2) =>
       call.out = [ok |-> FALSE, err |-> "BadLength", buf |-> call.arg.buf]
  /\ (Applied("Opcode::unpack") /\ Len(call.arg.buf) # 2) =>
       (~call.out.ok /\ call.out.err = "BadLength")
  /\ (Applied("Opcode::unpack") /\ Len(call.arg.buf) = 2) =>
       LET word == call.arg.buf[1] + 256 * call.arg.buf[2]
       IN  /\ call.out.err = "BadBytes" <=> (word \div 1024) \notin KnownOGFs
           /\ call.out.ok <=> (word \div 1024) \in KnownOGFs
           /\ call.out.ok => OGFToU8(call.out.opcode.ogf) = word \div 1024

\* 0x1C in the high byte carries the OGF value 7, which is none
C15_Witness ==
  /\ Applied("Opcode::unpack") /\ call.arg.buf = <<255, 28>>
  /\ call.out.err = "BadBytes"

\* C19: for every EventCode variant c, EventCode::try_from(u8::from(c)) is
\* Ok(c); for every byte b that try_from accepts, u8::from of the variant it
\* returns is b.
C19_EventCodeRoundTrip ==
  /\ (Applied("EventCode::try_from") /\ call.arg.ofCode # "") =>
       call.out = [ok |-> TRUE, val |-> call.arg.ofCode]
  /\ (Applied("u8::from(EventCode)") /\ call.arg.ofValue # -1) =>
       call.out = call.arg.ofValue

\* C20: for every ErrorCode variant e, ErrorCode::try_from(u8::from(e)) is
\* Ok(e); StatusReturn::unpack_from applied to the byte StatusReturn::pack_into
\* wrote returns the same status, for every ErrorCode.
C20_ErrorCodeRoundTrip ==
  /\ Applied("ErrorCode::try_from") =>
       call.out = [ok |-> TRUE, val |-> call.arg.ofCode]
  /\ Applied("StatusReturn::unpack_from") =>
       call.out = [ok |-> TRUE, err |-> "", status |-> call.arg.ofStatus]

\* C21: on success pack_full returns the number of bytes of the frame it
\* wrote, which is the length of the buffer it was given: byte_len() + 3
\* (= full_len()) for Command::pack_full, byte_len() + 2 for
\* Event::pack_full.
C21_PackFullReturnsFrameLength ==
  /\ (Applied("Command::pack_full") /\ call.out.ok) =>
       /\ call.out.n = Len(call.arg.buf)
       /\ call.out.n = CommandByteLen(call.arg.cmd) + 3
       /\ call.out.n = CommandFullLen(call.arg.cmd)
  /\ (Applied("Event::pack_full") /\ call.out.ok) =>
       /\ call.out.n = Len(call.arg.buf)
       /\ call.out.n = EventByteLen(call.arg.ev) + 2

(***************************************************************************)
(* Adapter::send_command (hci/adapter.rs), one step per suspension point.  *)
(***************************************************************************)
InFlight == {"write", "read"}

InitAdapter ==
  /\ call = NoCall
  /\ borrow = 0
  /\ ex = [c \in Callers |-> Idle]
  /\ ended = NoExchange
  /\ wire = <<>>
  /\ frames = 0
  /\ usb = UsbIdle
  /\ io = NoIo
  /\ sbuf = NoStaticBuf

\* mutant: send_command taking a shared reference to the Adapter
BorrowShared(c) == TRUE

\* `mut self: Pin<&'a mut Self>`: the future borrows the Adapter exclusively
BorrowAvailable(c) == borrow = 0

\* mutant: the loop giving up one try early
LoopOneTryShort(t) == t < HCI_EVENT_READ_TRIES - 1

\* mutant: the loop's range written inclusive, 0..=HCI_EVENT_READ_TRIES
LoopInclusive(t) == t <= HCI_EVENT_READ_TRIES

\* `for _try_i in 0..HCI_EVENT_READ_TRIES`
LoopContinues(t) == t < HCI_EVENT_READ_TRIES

\* mutant: the result of write_command ignored
WriteResultIgnored(w) == [returns |-> FALSE, err |-> NoErr]

\* `.await?` on write_command: an Err leaves send_command with that error
WriteQuestionMark(w) ==
  IF w.tag = "Err" THEN [returns |-> TRUE, err |-> w.err]
  ELSE [returns |-> FALSE, err |-> NoErr]

\* mutant: a failed read_event taken for a try that did not match
ReadErrorRetried(r) == [returns |-> FALSE, err |-> NoErr]

\* `.await?` on read_event: an Err leaves send_command with that error
ReadQuestionMark(r) ==
  IF r.tag = "Err" THEN [returns |-> TRUE, err |-> r.err]
  ELSE [returns |-> FALSE, err |-> NoErr]

\* the future completes with res, x being the exchange as it ends: the
\* caller has its result and the borrow of the Adapter ends
Complete(c, res, x) ==
  /\ ex' = [ex EXCEPT ![c] = Idle]
  /\ ended' = [caller |-> c, result |-> res, x |-> x]
  /\ borrow' = IF borrow = c THEN 0 ELSE borrow

\* the exchange goes on as x
Continue(c, x) ==
  /\ ex' = [ex EXCEPT ![c] = x]
  /\ UNCHANGED <<ended, borrow>>

\* send_command up to the call of write_command: the borrow is taken and the
\* command packed; a pack error is StreamError::CommandError
SendCommandCall(c, cmd) ==
  /\ ex[c].pc = "idle"
  /\ BorrowAvailable(c)
  /\ LET p == PackCommandPacket(cmd)
     IN  IF p.ok
         THEN /\ ex' = [ex EXCEPT ![c] = [Idle EXCEPT !.pc = "write"]]
              /\ borrow' = c
              /\ UNCHANGED ended
         ELSE /\ ended' = [caller |-> c, x |-> Idle,
                           result |-> ErrResult(StreamErr("CommandError", p.err))]
              /\ UNCHANGED <<ex, borrow>>

\* write_command has returned w to the exchange x
SendCommandAfterWrite(c, x, w) ==
  LET q == WriteQuestionMark(w)
  IN  IF q.returns THEN Complete(c, ErrResult(q.err), x)
      ELSE IF LoopContinues(0) THEN Continue(c, [x EXCEPT !.pc = "read"])
      ELSE Complete(c, ErrResult(StreamErr("StreamFailed", "")), x)

\* mutant: the loop reading on after an event has matched
AfterReadMatchIgnored(c, x, r) ==
  LET q == ReadQuestionMark(r)
      u == UnpackReturn(r.event)
      z == [x EXCEPT !.try_i = @ + 1]
  IN  IF q.returns THEN Complete(c, ErrResult(q.err), x)
      ELSE IF ~u.ok THEN Complete(c, ErrResult(StreamErr("EventError", u.err)), x)
      ELSE IF LoopContinues(z.try_i) THEN Continue(c, z)
      ELSE IF u.some THEN Complete(c, OkReturn(u.ret), x)
      ELSE Complete(c, ErrResult(StreamErr("StreamFailed", "")), z)

\* read_event has returned r to the exchange x: one turn of the loop, and
\* the loop's exit
SendCommandAfterRead(c, x, r) ==
  LET q == ReadQuestionMark(r)
      u == UnpackReturn(r.event)
      z == [x EXCEPT !.try_i = @ + 1]
  IN  IF q.returns THEN Complete(c, ErrResult(q.err), x)
      ELSE IF ~u.ok THEN Complete(c, ErrResult(StreamErr("EventError", u.err)), x)
      ELSE IF u.some THEN Complete(c, OkReturn(u.ret), x)
      ELSE IF LoopContinues(z.try_i) THEN Continue(c, z)
      ELSE Complete(c, ErrResult(StreamErr("StreamFailed", "")), z)

\* history: the exchange x after its write_command has returned w
WriteReturned(x, w) == [x EXCEPT !.lastWrite = w]

\* an event read for which unpack_return gives Ok(None)
NonMatching(r) ==
  r.tag = "Ok" /\ UnpackReturn(r.event).ok /\ ~UnpackReturn(r.event).some

\* an event read for which unpack_return gives Ok(Some(ret))
Matching(r) ==
  r.tag = "Ok" /\ UnpackReturn(r.event).ok /\ UnpackReturn(r.event).some

\* history: the exchange x after its read_event has returned r
ReadReturned(x, r) ==
  [x EXCEPT !.lastRead = r, !.nonmatch = @ + (IF NonMatching(r) THEN 1 ELSE 0)]

\* a caller starts an exchange on the Adapter
Call(c) ==
  /\ \E cmd \in SentCommands : SendCommandCall(c, cmd)
  /\ UNCHANGED <<codecVars, usbVars, bufVars>>

\* the transport's write_command returns Ok(()) or an error
Write(c) ==
  /\ ex[c].pc = "write"
  /\ \E w \in {OkUnit} \cup {Failed(e) : e \in TransportErrors} :
       SendCommandAfterWrite(c, WriteReturned([ex[c] EXCEPT !.writes = @ + 1], w), w)
  /\ UNCHANGED <<codecVars, usbVars, bufVars>>

\* the transport's read_event returns an event or an error
Read(c) ==
  /\ ex[c].pc = "read"
  /\ \E r \in {OkEvent(e) : e \in TransportEvents} \cup {Failed(e) : e \in TransportErrors} :
       SendCommandAfterRead(c, ReadReturned([ex[c] EXCEPT !.reads = @ + 1], r), r)
  /\ UNCHANGED <<codecVars, usbVars, bufVars>>

\* the caller drops the future at a suspension point: the exchange is
\* abandoned and the borrow ends
Cancel(c) ==
  /\ ex[c].pc \in InFlight
  /\ ex' = [ex EXCEPT ![c] = Idle]
  /\ borrow' = IF borrow = c THEN 0 ELSE borrow
  /\ UNCHANGED <<ended, codecVars, usbVars, bufVars>>

Next ==
  \/ \E c \in Callers : Call(c)
  \/ \E c \in Callers : Write(c)
  \/ \E c \in Callers : Read(c)
  \/ \E c \in Callers : Cancel(c)

Spec == InitAdapter /\ [][Next]_vars

(***************************************************************************)
(* Properties of send_command, checked under Spec.                         *)
(***************************************************************************)
Exchanges == {ex[c] : c \in Callers}
HasEnded == ended.caller # 0
StreamFailed == ErrResult(StreamErr("StreamFailed", ""))

\* C1: when the write succeeded and the transport returned N non-matching
\* events followed by a matching one, the exchange returns Ok with the Return
\* decoded from the matching event if and only if N < HCI_EVENT_READ_TRIES:
\* for any greater N it ends having read HCI_EVENT_READ_TRIES non-matching
\* events, and not with Ok.
C1_SucceedsIffWithinTries ==
  (HasEnded /\ ended.x.lastWrite.tag = "Ok"
     /\ (Matching(ended.x.lastRead) \/ NonMatching(ended.x.lastRead)))
  => /\ ended.result.tag = "Ok" <=>
          (Matching(ended.x.lastRead) /\ ended.x.nonmatch < HCI_EVENT_READ_TRIES)
     /\ Matching(ended.x.lastRead) =>
          /\ ended.result = OkReturn(UnpackReturn(ended.x.lastRead.event).ret)
          /\ ended.x.reads = ended.x.nonmatch + 1
     /\ NonMatching(ended.x.lastRead) =>
          /\ ended.x.nonmatch = HCI_EVENT_READ_TRIES
          /\ ended.result.tag = "Err"

\* the last try of the budget matched: N = HCI_EVENT_READ_TRIES - 1
C1_Witness ==
  /\ HasEnded /\ ended.result.tag = "Ok"
  /\ ended.x.nonmatch = HCI_EVENT_READ_TRIES - 1

\* C2: no exchange calls read_event more than HCI_EVENT_READ_TRIES times, and
\* an exchange whose write succeeded and whose HCI_EVENT_READ_TRIES events
\* were all non-matching has ended, after exactly that many reads, with
\* Error::StreamError(StreamError::StreamFailed).
C2_ReadsBounded ==
  /\ \A x \in Exchanges :
       x.reads <= HCI_EVENT_READ_TRIES /\ x.nonmatch < HCI_EVENT_READ_TRIES
  /\ HasEnded =>
       /\ ended.x.reads <= HCI_EVENT_READ_TRIES
       /\ ended.x.nonmatch = HCI_EVENT_READ_TRIES =>
            /\ ended.result = StreamFailed
            /\ ended.x.reads = HCI_EVENT_READ_TRIES
            /\ ended.x.lastWrite = OkUnit

C2_Witness ==
  HasEnded /\ ended.x.nonmatch = HCI_EVENT_READ_TRIES /\ ended.result = StreamFailed

\* C3: when write_command fails, send_command returns that error at once:
\* no exchange goes on after a failed write, read_event is never called and
\* write_command was called once.
C3_WriteFailureShortCircuits ==
  /\ \A x \in Exchanges : x.lastWrite.tag # "Err" /\ x.writes <= 1
  /\ (HasEnded /\ ended.x.lastWrite.tag = "Err") =>
       /\ ended.result = ErrResult(ended.x.lastWrite.err)
       /\ ended.x.reads = 0
       /\ ended.x.writes = 1

C3_Witness ==
  HasEnded /\ ended.x.lastWrite = Failed(IOErr("TimedOut")) /\ ended.x.writes = 1

\* C4: an exchange that may read again has either read nothing yet or has
\* just read a non-matching event; a read_event error ends the exchange, at
\* the attempt that met it, with that very error, and an event that fails to
\* decode ends it there with the decode error tagged StreamError::EventError.
C4_RetryOnlyOnNonMatching ==
  /\ \A x \in Exchanges :
       (x.pc = "read" /\ x.reads > 0) => NonMatching(x.lastRead)
  /\ (HasEnded /\ ended.x.lastRead.tag = "Err") =>
       /\ ended.result = ErrResult(ended.x.lastRead.err)
       /\ ended.x.reads = ended.x.nonmatch + 1
  /\ (HasEnded /\ ended.x.lastRead.tag = "Ok"
        /\ ~UnpackReturn(ended.x.lastRead.event).ok) =>
       /\ ended.result =
            ErrResult(StreamErr("EventError", UnpackReturn(ended.x.lastRead.event).err))
       /\ ended.x.reads = ended.x.nonmatch + 1

\* a controller error code returned by the third read ended the exchange
C4_Witness ==
  /\ HasEnded /\ ended.x.reads = 3
  /\ ended.x.lastRead = Failed(ControllerErr("HardwareFailure"))
  /\ ended.result = ErrResult(ControllerErr("HardwareFailure"))

\* C6: at most one caller has a send_command exchange in flight on the
\* Adapter, and it is the caller holding the exclusive borrow.
C6_OneExchangeInFlight ==
  /\ Cardinality({c \in Callers : ex[c].pc \in InFlight}) <= 1
  /\ \A c \in Callers : ex[c].pc \in InFlight => borrow = c

\* a second caller's exchange is reading events after the first caller's
\* exchange has completed
C6_Witness ==
  /\ ended.caller = 1 /\ ex[2].pc = "read" /\ ex[2].reads > 0 /\ borrow = 2

\* C16: in every exchange the command is written exactly once and before
\* any read_event call; each attempt reads exactly one event; once an event
\* has matched no further read_event call is made, and the value returned is
\* the one decoded from that event.
C16_WriteOnceThenOneReadPerTry ==
  /\ \A c \in Callers :
       LET x == ex[c]
       IN  /\ x.pc = "write" => (x.writes = 0 /\ x.reads = 0)
           /\ x.pc = "read" =>
                /\ x.writes = 1 /\ x.lastWrite = OkUnit
                /\ x.reads = x.try_i
                /\ x.nonmatch = x.reads
                /\ x.reads > 0 => NonMatching(x.lastRead)
  /\ HasEnded =>
       LET x == ended.x
       IN  /\ x.writes <= 1
           /\ x.reads > 0 => (x.writes = 1 /\ x.lastWrite = OkUnit)
           /\ x.reads \in {x.try_i, x.try_i + 1}
           /\ ended.result.tag = "Ok" =>
                /\ x.writes = 1
                /\ Matching(x.lastRead)
                /\ ended.result.ret = UnpackReturn(x.lastRead.event).ret
                /\ x.reads = x.nonmatch + 1
                /\ x.reads = x.try_i + 1

\* an exchange has returned the status decoded from the third event it read
C16_Witness ==
  /\ HasEnded /\ ended.result.tag = "Ok"
  /\ ended.x.writes = 1 /\ ended.x.reads = 3 /\ ended.x.nonmatch = 2
  /\ ended.result.ret = UnpackReturn(ended.x.lastRead.event).ret

(***************************************************************************)
(* The USB adapter (hci/usb/adapter.rs) under send_command.  Its futures   *)
(* are ready at once: write_command and read_event run their synchronous   *)
(* USB loops to the end, one step per loop test and per USB transfer.      *)
(***************************************************************************)
\* IOError values a USB transfer fails with (usb::Error wraps an IOError)
UsbErrors == {"TimedOut", "Other"}

\* event codes of the frames the controller sends: CommandComplete,
\* CommandStatus, and 0x10, which EventCode::try_from does not know
WireEventCodes == {14, 15, 16}
WireParamBytes == {0, 42}
MaxWireParamLen == 1

\* event frames: event_code(1) || param_len(1) || parameters(param_len)
ControllerFrames ==
  {<<code, Len(p)>> \o p :
     code \in WireEventCodes, p \in SeqsUpTo(WireParamBytes, MaxWireParamLen)}

Min(a, b) == IF a < b THEN a ELSE b
Zeros(n) == [i \in 1..n |-> 0]

\* buf with src copied in from (0-based) index on
CopyAt(buf, index, src) ==
  [i \in 1..Len(buf) |->
     IF i > index /\ i <= index + Len(src) THEN src[i - index] ELSE buf[i]]

\* read_event_packet begins: `let mut header = [0u8; 2]` and the first
\* read_event_bytes
ReadHeaderFrame(c) == UsbFrame("header", 2, <<0, 0>>, <<>>, c)

\* the frame once the call returns to send_command, which calls read_event
\* again when its loop goes on
UsbAfterReturn(c, pcNow) == IF pcNow = "read" THEN ReadHeaderFrame(c) ELSE UsbIdle

\* write_command has returned w
UsbWriteReturns(w) ==
  LET c == usb.owner
  IN  /\ SendCommandAfterWrite(c, WriteReturned([ex[c] EXCEPT !.writes = @ + 1], w), w)
      /\ usb' = UsbAfterReturn(c, ex'[c].pc)

\* read_event has returned r
UsbReadReturns(r) ==
  LET c == usb.owner
  IN  /\ SendCommandAfterRead(c, ReadReturned([ex[c] EXCEPT !.reads = @ + 1], r), r)
      /\ usb' = UsbAfterReturn(c, ex'[c].pc)

\* a caller starts an exchange: send_command packs the command and
\* write_command enters write_hci_command_bytes with the packed bytes
UsbSendCommand(c) ==
  /\ usb.op = "idle"
  /\ ended = NoExchange
  /\ \E cmd \in SentCommands :
       /\ SendCommandCall(c, cmd)
       /\ usb' = IF PackCommandPacket(cmd).ok
                 THEN UsbFrame("write", CommandFullLen(cmd), PackCommandPacket(cmd).buf, <<>>, c)
                 ELSE usb
       /\ io' = IF PackCommandPacket(cmd).ok
                THEN IoWrite(PackCommandPacket(cmd).buf)
                ELSE io
  /\ UNCHANGED <<codecVars, bufVars, wire, frames>>

\* the caller takes the result of its exchange
UsbTakeResult ==
  /\ usb.op = "idle"
  /\ ended # NoExchange
  /\ ended' = NoExchange
  /\ UNCHANGED <<codecVars, bufVars, borrow, ex, usb, io, wire, frames>>

\* write_hci_command_bytes: `while index < size`, and `Ok(())` after it
UsbWriteTest ==
  /\ usb.op = "write" /\ usb.at = "test"
  /\ IF usb.index < usb.size
     THEN usb' = [usb EXCEPT !.at = "xfer"] /\ UNCHANGED <<adapterVars, io>>
     ELSE /\ UsbWriteReturns(OkUnit)
          /\ io' = [io EXCEPT !.result = OkUnit]
  /\ UNCHANGED <<codecVars, bufVars, wire, frames>>

\* mutant: a write_control that wrote nothing taken for progress
ZeroAmountIgnored(amount) == FALSE

\* `if amount == 0`
AmountIsZero(amount) == amount = 0

\* write_hci_command_bytes: write_control on &bytes[index..]; `?` returns its
\* error, 0 bytes written is TimedOut, else the index advances
UsbWriteXfer ==
  /\ usb.op = "write" /\ usb.at = "xfer"
  /\ LET given == SubSeq(usb.buf, usb.index + 1, usb.size)
     IN  \/ \E e \in UsbErrors :
              /\ UsbWriteReturns(Failed(FromUsbError(e)))
              /\ io' = [io EXCEPT !.last = XferErr(e),
                                  !.result = Failed(FromUsbError(e))]
         \/ \E amount \in 0..Len(given) :
              IF AmountIsZero(amount)
              THEN /\ UsbWriteReturns(Failed(FromUsbError("TimedOut")))
                   /\ io' = [io EXCEPT !.last = XferOk(amount),
                                       !.result = Failed(FromUsbError("TimedOut"))]
              ELSE /\ usb' = [usb EXCEPT !.at = "test", !.index = @ + amount]
                   /\ io' = [io EXCEPT !.last = XferOk(amount),
                                       !.sent = @ \o SubSeq(given, 1, amount)]
                   /\ UNCHANGED adapterVars
  /\ UNCHANGED <<codecVars, bufVars, wire, frames>>

\* read_event_bytes: `while index < size`; after the loop of the header,
\* read_event_packet decodes the event code and reads header[1] parameter
\* bytes into Buf::with_size(len); after the loop of the parameters it
\* returns the EventPacket
UsbReadTest ==
  /\ usb.op \in {"header", "params"} /\ usb.at = "test"
  /\ IF usb.index < usb.size
     THEN usb' = [usb EXCEPT !.at = "xfer"] /\ UNCHANGED <<adapterVars, io>>
     ELSE IF usb.op = "header"
     THEN IF EventCodeTryFrom(usb.buf[1]).ok
          THEN /\ usb' = UsbFrame("params", usb.buf[2], Zeros(usb.buf[2]), usb.buf, usb.owner)
               /\ io' = [io EXCEPT !.header = usb.buf]
               /\ UNCHANGED adapterVars
          ELSE /\ UsbReadReturns(Failed(StreamErr("BadEventCode", "")))
               /\ io' = [io EXCEPT !.header = usb.buf,
                                   !.result = Failed(StreamErr("BadEventCode", ""))]
     ELSE LET r == OkEvent([event_opcode |-> EventCodeTryFrom(usb.header[1]).val,
                            parameters |-> usb.buf])
          IN  UsbReadReturns(r) /\ io' = [io EXCEPT !.result = r]
  /\ UNCHANGED <<codecVars, bufVars, wire, frames>>

\* the history of the read_event_packet in progress: a new one when the
\* call before has returned
IoReading == IF io.op = IoRead.op /\ io.result = NoOutcome THEN io ELSE IoRead

\* read_event_bytes: read_some_event_bytes on &mut buf[index..].  The
\* interrupt transfer takes bytes the controller has queued; with none queued
\* it times out after TIMEOUT, which the loop counts as 0 bytes read; any
\* other error is returned
UsbReadXfer ==
  /\ usb.op \in {"header", "params"} /\ usb.at = "xfer"
  /\ \/ /\ wire # <<>>
        /\ \E amount \in 1..Min(usb.size - usb.index, Len(wire)) :
             /\ usb' = [usb EXCEPT !.at = "test", !.index = @ + amount,
                                   !.buf = CopyAt(@, usb.index, SubSeq(wire, 1, amount))]
             /\ wire' = SubSeq(wire, amount + 1, Len(wire))
             /\ io' = [IoReading EXCEPT !.taken = @ + amount]
        /\ UNCHANGED adapterVars
     \/ /\ wire = <<>>
        /\ usb' = [usb EXCEPT !.at = "test"]
        /\ io' = IoReading
        /\ UNCHANGED <<adapterVars, wire>>
     \/ /\ UsbReadReturns(Failed(FromUsbError("Other")))
        /\ io' = [IoReading EXCEPT !.result = Failed(FromUsbError("Other"))]
        /\ UNCHANGED wire
  /\ UNCHANGED <<codecVars, bufVars, frames>>

\* the controller queues an event frame on the event endpoint
ControllerSends ==
  /\ frames < MaxFrames
  /\ frames' = frames + 1
  /\ \E f \in ControllerFrames : wire' = wire \o f
  /\ UNCHANGED <<codecVars, bufVars, adapterVars, usb, io>>

\* the steps of the thread running the exchange
UsbStep == UsbWriteTest \/ UsbWriteXfer \/ UsbReadTest \/ UsbReadXfer

NextUsb ==
  \/ \E c \in Callers : UsbSendCommand(c)
  \/ UsbTakeResult
  \/ UsbWriteTest
  \/ UsbWriteXfer
  \/ UsbReadTest
  \/ UsbReadXfer
  \/ ControllerSends

SpecUsb == InitAdapter /\ [][NextUsb]_vars

\* the thread in a USB call keeps running: its loops are not suspended
SpecUsbFair == SpecUsb /\ WF_vars(UsbStep)

\* C5: with the USB adapter every send_command exchange reaches a terminal
\* result, whatever the controller delivers or fails to deliver.
C5_UsbExchangeTerminates ==
  (\E c \in Callers : ex[c].pc \in InFlight) ~> HasEnded

(***************************************************************************)
(* SpecUsbWriteFair: the exchange over the USB adapter up to the return of *)
(* write_command: the steps of write_hci_command_bytes alone, under any    *)
(* results of write_control.                                               *)
(***************************************************************************)
UsbWriteStep == UsbWriteTest \/ UsbWriteXfer

NextUsbWrite ==
  \/ \E c \in Callers : UsbSendCommand(c)
  \/ UsbTakeResult
  \/ UsbWriteTest
  \/ UsbWriteXfer

SpecUsbWrite == InitAdapter /\ [][NextUsbWrite]_vars

\* the thread in write_hci_command_bytes keeps running
SpecUsbWriteFair == SpecUsbWrite /\ WF_vars(UsbWriteStep)

(***************************************************************************)
(* Properties of the USB adapter's calls: C17 checked under SpecUsbFair,   *)
(* C18 under SpecUsbWriteFair.                                             *)
(***************************************************************************)
\* C17: whenever read_event_packet returns, Ok or with
\* StreamError::BadEventCode, the bytes it has taken from the event endpoint
\* are exactly one frame: the 2 header bytes and header[1] parameter bytes.
C17_ReadsWholeFrames ==
  (/\ io.op = IoRead.op
   /\ io.result.tag = "Ok" \/ io.result = Failed(StreamErr("BadEventCode", "")))
  => io.taken = 2 + io.header[2]

InWrite == usb.op = "write"

\* write_hci_command_bytes, whatever write_control returns: it returns Ok
\* only once the bytes reported written are all the bytes it was given, each
\* write_control having been handed the suffix not yet written; TimedOut as
\* soon as a write_control reports 0 bytes; a write_control error at once
WriteSafety ==
  io.op = IoWrite(<<>>).op =>
    /\ Len(io.sent) <= Len(io.bytes)
    /\ io.sent = SubSeq(io.bytes, 1, Len(io.sent))
    /\ io.result = OkUnit => io.sent = io.bytes
    /\ io.last = XferOk(0) => io.result = Failed(FromUsbError("TimedOut"))
    /\ io.last.tag = "Err" => io.result = Failed(FromUsbError(io.last.err))
    /\ io.result.tag = "Err" => (io.last = XferOk(0) \/ io.last.tag = "Err")
    /\ io.result = NoOutcome => InWrite

InitBuf ==
  /\ call = NoCall
  /\ borrow = 0
  /\ ex = [c \in Callers |-> Idle]
  /\ ended = NoExchange
  /\ wire = <<>>
  /\ frames = 0
  /\ usb = UsbIdle
  /\ io = NoIo
  /\ sbuf = NoStaticBuf

\* StaticBuf::with_size(n) builds the buffer, or a new one
BufWithSize ==
  /\ sbuf.pc # "panicked"
  /\ \E n \in 0..(MaxSize + 1) : sbuf' = StaticBufWithSize(n)
  /\ UNCHANGED <<codecVars, adapterVars, usbVars>>

\* buf.resize(n)
BufResize ==
  /\ sbuf.pc = "live"
  /\ \E n \in 0..(MaxSize + 1) : sbuf' = StaticBufResize(sbuf, n)
  /\ UNCHANGED <<codecVars, adapterVars, usbVars>>

\* buf[i] = v
BufIndexMut ==
  /\ sbuf.pc = "live"
  /\ \E i \in 0..MaxSize, v \in BufBytes : sbuf' = StaticBufIndexMut(sbuf, i, v)
  /\ UNCHANGED <<codecVars, adapterVars, usbVars>>

NextBuf ==
  \/ BufWithSize
  \/ BufResize
  \/ BufIndexMut

SpecBuf == InitBuf /\ [][NextBuf]_vars

(***************************************************************************)
(* Properties of StaticBuf, checked under SpecBuf.                         *)
(***************************************************************************)
\* C11: after any sequence of with_size and resize calls that did not panic,
\* len() <= max_size() and the readable slice has exactly len() bytes;
\* with_size(n) with n <= max_size() yields len() = n; with_size(n) and
\* resize(n) with n > max_size() panic instead of returning.
C11_StaticBufLength ==
  /\ sbuf.pc = "live" =>
       /\ StaticBufLen(sbuf) <= StaticBufMaxSize
       /\ Len(StaticBufAsRef(sbuf)) = StaticBufLen(sbuf)
  /\ (sbuf.op = "with_size" /\ sbuf.n <= StaticBufMaxSize) =>
       (sbuf.pc = "live" /\ StaticBufLen(sbuf) = sbuf.n)
  /\ (sbuf.op = "resize" /\ sbuf.n <= StaticBufMaxSize) =>
       (sbuf.pc = "live" /\ StaticBufLen(sbuf) = sbuf.n)
  /\ (sbuf.op \in {"with_size", "resize"} /\ sbuf.n > StaticBufMaxSize) =>
       sbuf.pc = "panicked"

\* a resize beyond the capacity has panicked
C11_Witness ==
  sbuf.pc = "panicked" /\ sbuf.op = "resize" /\ sbuf.n > StaticBufMaxSize

\* C12: resize changes only the logical length: the backing array is after
\* resize what it was before, so a byte written at index i, hidden by a
\* resize to a length <= i, is read back unchanged once a later resize has
\* made the length > i.
C12_ResizeKeepsBytes ==
  sbuf.pc = "live" =>
    /\ sbuf.op = "resize" => sbuf.buf = sbuf.before
    /\ \A i \in 0..(StaticBufLen(sbuf) - 1) :
         sbuf.hid[i + 1] # -1 => StaticBufIndex(sbuf, i) = sbuf.hid[i + 1]

\* the last byte, written 0xFF, was hidden by a resize and is readable again
C12_Witness ==
  /\ sbuf.pc = "live" /\ sbuf.op = "resize"
  /\ StaticBufLen(sbuf) = StaticBufMaxSize
  /\ sbuf.hid[StaticBufMaxSize] = 255
  /\ StaticBufIndex(sbuf, StaticBufMaxSize - 1) = 255
====
